---- MODULE Spec2Model ----
(***************************************************************************)
(* Model of the outlier analyser of ftfmtavares/anomalies-detector.        *)
(*                                                                         *)
(* Seven specifications over the same variables:                           *)
(*   SpecDetect  one call of analyser.detectOutliers3Sigmas, one loop      *)
(*               iteration per step, on a series laid out on the time      *)
(*               grid collector.allocMasterData produces;                  *)
(*   Spec        one call of analyser.GetResults, one (metric, attribute)  *)
(*               iteration per step, each iteration running the whole      *)
(*               detection on the series stored under the attribute.       *)
(*   SpecRef     SpecDetect's steps on the 30 reference values of          *)
(*               analyser_test.go.                                         *)
(*   SpecFloat   SpecDetect's steps with the sum and the mean rounded to   *)
(*               a binary floating-point format of MantissaBits bits, on   *)
(*               series of values that format represents;                  *)
(*   SpecDuration  one call of utils.StrToDuration on a string over the    *)
(*               digits and the unit letters;                              *)
(*   SpecFilter  one call of collector.filterData on a metric laid out as  *)
(*               collector.generateData lays it out;                       *)
(*   SpecAlloc   one call of collector.GetData up to the allocation of the *)
(*               time steps of a metric (FairSpecAlloc: with the loops     *)
(*               going on).                                                *)
(*                                                                         *)
(* Numbers.  Timestamps and durations are integers (ticks).  Sample values *)
(* and multipliers are integers; the float64 expressions of the code are   *)
(* evaluated exactly (as rationals, the square root removed by squaring    *)
(* both non-negative sides of a comparison); float64 rounding is modelled  *)
(* in SpecFloat only.  Multipliers are >= 0.                               *)
(***************************************************************************)
EXTENDS Integers, Sequences, FiniteSets, TLC

VARIABLES
    pc,                         \* control position
    siteData,                   \* GetResults argument: [SiteId, DateStart, DateEnd, Metrics]
    dataConf,                   \* GetResults argument: [OutliersDetectionMethod, TimeAgo, TimeStep]
    methodParams,               \* GetResults argument: [OutliersMultiplier, StrongOutliersMultiplier]
    res,                        \* GetResults: the OutlierReport under construction
    metricInd,                  \* GetResults: position of the outer range loop (1-based)
    attrInd,                    \* GetResults: position of the inner range loop (1-based)
    clock,                      \* the wall clock time.Now() reads
    data,                       \* detectOutliers3Sigmas argument
    PeriodEnd,                  \* detectOutliers3Sigmas argument
    outliersMultiplier,         \* detectOutliers3Sigmas argument
    strongOutliersMultiplier,   \* detectOutliers3Sigmas argument
    baseline,                   \* detectOutliers3Sigmas: count, sum (mean) and sd, kept exact
    ind,                        \* detectOutliers3Sigmas: loop index (0-based, as in the code)
    beginStep,                  \* detectOutliers3Sigmas: open index, -1 when none
    strongEvent,                \* detectOutliers3Sigmas: the open period is an alarm
    warnings,                   \* detected warning periods
    alarms,                     \* detected alarm periods
    timeStep,                   \* StrToDuration argument: a string, as a sequence of characters
    parsed,                     \* StrToDuration results: [duration, err]
    metricData,                 \* filterData argument and result: [Attributes, AttributeData]
    metricDataArg,              \* filterData: metricData as the caller passed it
    collectFilters,             \* filterData argument: [MinVisitorsPerTimeStep, AttributesFilterParams]
    dataSet,                    \* GetData argument: [TimeAgo, TimeStep], two strings
    timeStepDuration,           \* GetData: the parsed TimeStep
    pathInd,                    \* generateData: position in the attribute tree of the path being allocated
    dateStep,                   \* allocMasterData / allocAttributesData: the loop variable
    newData                     \* allocMasterData / allocAttributesData: the series under construction

vars == <<pc, siteData, dataConf, methodParams, res, metricInd, attrInd, clock,
          data, PeriodEnd, outliersMultiplier, strongOutliersMultiplier, baseline,
          ind, beginStep, strongEvent, warnings, alarms,
          timeStep, parsed, metricData, metricDataArg, collectFilters,
          dataSet, timeStepDuration, pathInd, dateStep, newData>>

\* The variables of collector.GetData and of the allocation in generateData.
allocVars == <<dataSet, timeStepDuration, pathInd, dateStep, newData>>

\* The variables of the collector and of utils.StrToDuration.
collectorVars == <<timeStep, parsed, metricData, metricDataArg, collectFilters, allocVars>>

\* time.Duration(0).  A duration is kept as its count of each unit, carried
\* over at 1000 ns, 1000 us, 1000 ms, 60 s and 60 m; the code holds the same
\* quantity as one int64 count of nanoseconds.
ZeroDuration == [ns |-> 0, us |-> 0, ms |-> 0, s |-> 0, m |-> 0, h |-> 0]

\* No call of GetData is under way.
AllocIdle ==
    /\ dataSet = [TimeAgo |-> <<>>, TimeStep |-> <<>>]
    /\ timeStepDuration = 0
    /\ pathInd = 1
    /\ dateStep = 0
    /\ newData = <<>>

\* No call of StrToDuration, filterData or GetData is under way.
CollectorIdle ==
    /\ AllocIdle
    /\ timeStep = <<>>
    /\ parsed = [duration |-> ZeroDuration, err |-> "nil"]
    /\ metricData = [Attributes |-> <<>>, AttributeData |-> <<>>]
    /\ metricDataArg = metricData
    /\ collectFilters = [MinVisitorsPerTimeStep |-> 0, AttributesFilterParams |-> <<>>]

getResultsVars == <<siteData, dataConf, methodParams, res, metricInd, attrInd, clock>>

(***************************************************************************)
(* Bounds of the model.                                                    *)
(***************************************************************************)
MaxTimeAgo == 4       \* longest collection window, in ticks
MaxTimeStep == 2      \* longest time step, in ticks
MaxVal == 4           \* sample values of a detection call are 0..MaxVal
MaxSiteTimeAgo == 3   \* a site's window is 0..MaxSiteTimeAgo long
MaxSteps == 2         \* a metric's series have 0..MaxSteps time steps
MaxStepSamples == 1   \* a time step holds 0..MaxStepSamples samples
MaxAttributes == 3    \* a metric lists "Total" and up to MaxAttributes attribute paths
MaxMinVisitors == 2   \* MinVisitorsPerTimeStep is 0..MaxMinVisitors
MaxLevel == 2         \* a filter's Level and Top are 0..MaxLevel
MaxStrLen == 5        \* a duration string has 0..MaxStrLen characters
MaxDatasetStrLen == 3 \* a string of the dataset has 0..MaxDatasetStrLen characters
MaxAllocated == 23    \* the samples of a series the memory holds
MantissaBits == 3     \* significant bits of a floating-point value (53 in float64)
MaxSamples == 100     \* a sample's weight is 0 or MaxSamples
MaxSiteVal == 2       \* sample values of a site's series are 0..MaxSiteVal
MaxMult == 2          \* multipliers are 0..MaxMult
MaxElapsed == 1       \* the clock advances by at most this between two readings
CollectTime == 10     \* the instant collector.GetData read as DateEnd

Multipliers == 0..MaxMult

Methods == {"3-sigmas", "iqr"}

(***************************************************************************)
(* collector: the time grid of a series.                                   *)
(***************************************************************************)
RECURSIVE allocSteps(_, _, _)
allocSteps(at, dateEnd, stepDuration) ==
    IF at < dateEnd
    THEN <<at>> \o allocSteps(at + stepDuration, dateEnd, stepDuration)
    ELSE <<>>

TimeStepData(dateStart, value) ==
    [DateStart |-> dateStart, Value |-> value, Samples |-> 0]

\* Every series allocMasterData can lay out on the window, with any values
\* of 0..maxVal.
SeriesSet(dateStart, dateEnd, stepDuration, maxVal) ==
    LET grid == allocSteps(dateStart, dateEnd, stepDuration)
    IN  { [i \in 1..Len(grid) |-> TimeStepData(grid[i], vals[i])] :
            vals \in [1..Len(grid) -> 0..maxVal] }

(***************************************************************************)
(* analyser.detectOutliers3Sigmas: baseline statistics.                    *)
(*                                                                         *)
(* Baseline(d) holds the locals the code computes before its 3rd loop,     *)
(* kept exact.  With b = Baseline(d):                                      *)
(*   count          = b.count                                              *)
(*   sum            = b.sum                                                *)
(*   mean           = b.sum / b.count                                      *)
(*   value - mean   = Dev(b, value) / b.count                              *)
(*   sd (line 124)  = b.sqDevSum / b.count^2                               *)
(*   sd (line 125)  = sqrt(b.sqDevSum / (b.count^2 * VarDivisor(b)))       *)
(***************************************************************************)
RECURSIVE SumWeightedTo(_, _)
SumWeightedTo(d, n) == IF n = 0 THEN 0 ELSE SumWeightedTo(d, n - 1) + d[n].Value * d[n].Samples

SumWeighted(d) == SumWeightedTo(d, Len(d))

RECURSIVE SumTo(_, _)
SumTo(d, n) == IF n = 0 THEN 0 ELSE SumTo(d, n - 1) + d[n].Value

Sum(d) == SumTo(d, Len(d))

RECURSIVE SqDevSumTo(_, _, _)
SqDevSumTo(d, n, sum) ==
    IF n = 0 THEN 0
    ELSE SqDevSumTo(d, n - 1, sum)
           + (Len(d) * d[n].Value - sum) * (Len(d) * d[n].Value - sum)

SqDevSum(d) == SqDevSumTo(d, Len(d), Sum(d))

Baseline(d) == [count |-> Len(d), sum |-> Sum(d), sqDevSum |-> SqDevSum(d)]

Dev(b, value) == b.count * value - b.sum

VarDivisorSample(b) == IF b.count > 1 THEN b.count - 1 ELSE 1

VarDivisor(b) == b.count

\* a/b > c/d for a, c >= 0 and b, d > 0, without forming the cross products.
RECURSIVE RatGt(_, _, _, _)
RatGt(a, b, c, d) ==
    IF (a \div b) # (c \div d) THEN (a \div b) > (c \div d)
    ELSE IF a % b = 0 THEN FALSE
    ELSE IF c % d = 0 THEN TRUE
    ELSE RatGt(d, c % d, b, a % b)

AboveLimitNonStrict(b, value, mult) ==
    IF mult = 0 THEN TRUE
    ELSE ~RatGt(b.sqDevSum, VarDivisor(b), Dev(b, value) * Dev(b, value), mult * mult)

\* math.Abs(value-mean) > mult*sd.  Both sides are >= 0, so the comparison is
\* that of the squares: Dev^2/count^2 > mult^2 * sqDevSum/(count^2 * VarDivisor).
AboveLimit(b, value, mult) ==
    IF mult = 0 THEN Dev(b, value) # 0
    ELSE RatGt(Dev(b, value) * Dev(b, value), mult * mult, b.sqDevSum, VarDivisor(b))

(***************************************************************************)
(* analyser.detectOutliers3Sigmas: the event period state machine.         *)
(* st = [beginStep, strongEvent, warnings, alarms]; i is the 0-based loop  *)
(* index, so the sample at i is data[i + 1].                               *)
(***************************************************************************)
NewEventSwapped(start, end) == [outlierPeriodStart |-> end, outlierPeriodEnd |-> start]

NewEvent(start, end) == [outlierPeriodStart |-> start, outlierPeriodEnd |-> end]

StrongBranchKeepBegin(st, d, i) ==
    IF st.beginStep = -1
    THEN [st EXCEPT !.beginStep = i, !.strongEvent = TRUE]
    ELSE IF ~st.strongEvent
    THEN [st EXCEPT !.warnings = Append(@, NewEvent(d[st.beginStep + 1].DateStart, d[i + 1].DateStart)),
                    !.strongEvent = TRUE]
    ELSE st

StrongBranch(st, d, i) ==
    IF st.beginStep = -1
    THEN [st EXCEPT !.beginStep = i, !.strongEvent = TRUE]
    ELSE IF ~st.strongEvent
    THEN [st EXCEPT !.warnings = Append(@, NewEvent(d[st.beginStep + 1].DateStart, d[i + 1].DateStart)),
                    !.beginStep = i,
                    !.strongEvent = TRUE]
    ELSE st

WeakBranchKeepBegin(st, d, i) ==
    IF st.beginStep = -1
    THEN [st EXCEPT !.beginStep = i, !.strongEvent = FALSE]
    ELSE IF st.strongEvent
    THEN [st EXCEPT !.alarms = Append(@, NewEvent(d[st.beginStep + 1].DateStart, d[i + 1].DateStart)),
                    !.strongEvent = FALSE]
    ELSE st

WeakBranch(st, d, i) ==
    IF st.beginStep = -1
    THEN [st EXCEPT !.beginStep = i, !.strongEvent = FALSE]
    ELSE IF st.strongEvent
    THEN [st EXCEPT !.alarms = Append(@, NewEvent(d[st.beginStep + 1].DateStart, d[i + 1].DateStart)),
                    !.beginStep = i,
                    !.strongEvent = FALSE]
    ELSE st

NormalBranchLastInside(st, d, i) ==
    IF st.beginStep # -1
    THEN IF st.strongEvent
         THEN [st EXCEPT !.alarms = Append(@, NewEvent(d[st.beginStep + 1].DateStart, d[i].DateStart)),
                         !.beginStep = -1]
         ELSE [st EXCEPT !.warnings = Append(@, NewEvent(d[st.beginStep + 1].DateStart, d[i].DateStart)),
                         !.beginStep = -1]
    ELSE st

NormalBranch(st, d, i) ==
    IF st.beginStep # -1
    THEN IF st.strongEvent
         THEN [st EXCEPT !.alarms = Append(@, NewEvent(d[st.beginStep + 1].DateStart, d[i + 1].DateStart)),
                         !.beginStep = -1]
         ELSE [st EXCEPT !.warnings = Append(@, NewEvent(d[st.beginStep + 1].DateStart, d[i + 1].DateStart)),
                         !.beginStep = -1]
    ELSE st

LoopBodyWeakFirst(st, d, b, i, om, som) ==
    IF AboveLimit(b, d[i + 1].Value, om) THEN WeakBranch(st, d, i)
    ELSE IF AboveLimit(b, d[i + 1].Value, som) THEN StrongBranch(st, d, i)
    ELSE NormalBranch(st, d, i)

\* One iteration of the 3rd loop.
LoopBody(st, d, b, i, om, som) ==
    IF AboveLimit(b, d[i + 1].Value, som) THEN StrongBranch(st, d, i)
    ELSE IF AboveLimit(b, d[i + 1].Value, om) THEN WeakBranch(st, d, i)
    ELSE NormalBranch(st, d, i)

FinalCloseLastSample(st, d, periodEnd) ==
    IF st.beginStep # -1
    THEN IF st.strongEvent
         THEN [st EXCEPT !.alarms = Append(@, NewEvent(d[st.beginStep + 1].DateStart, d[Len(d)].DateStart))]
         ELSE [st EXCEPT !.warnings = Append(@, NewEvent(d[st.beginStep + 1].DateStart, d[Len(d)].DateStart))]
    ELSE st

FinalCloseNow(st, d, periodEnd) ==
    IF st.beginStep # -1
    THEN IF st.strongEvent
         THEN [st EXCEPT !.alarms = Append(@, NewEvent(d[st.beginStep + 1].DateStart, clock))]
         ELSE [st EXCEPT !.warnings = Append(@, NewEvent(d[st.beginStep + 1].DateStart, clock))]
    ELSE st

FinalCloseAlways(st, d, periodEnd) ==
    IF st.beginStep # -1
    THEN IF st.strongEvent
         THEN [st EXCEPT !.alarms = Append(@, NewEvent(d[st.beginStep + 1].DateStart, periodEnd))]
         ELSE [st EXCEPT !.warnings = Append(@, NewEvent(d[st.beginStep + 1].DateStart, periodEnd))]
    ELSE [st EXCEPT !.warnings = Append(@, NewEvent(periodEnd, periodEnd))]

\* Closing any detected event still open in the end of the loop.
FinalClose(st, d, periodEnd) ==
    IF st.beginStep # -1
    THEN IF st.strongEvent
         THEN [st EXCEPT !.alarms = Append(@, NewEvent(d[st.beginStep + 1].DateStart, periodEnd))]
         ELSE [st EXCEPT !.warnings = Append(@, NewEvent(d[st.beginStep + 1].DateStart, periodEnd))]
    ELSE st

InitLoopStateKept ==
    [beginStep |-> beginStep, strongEvent |-> strongEvent, warnings |-> warnings, alarms |-> alarms]

\* beginStep := -1; strongEvent := false; the two lists start empty.
InitLoopState == [beginStep |-> -1, strongEvent |-> FALSE, warnings |-> <<>>, alarms |-> <<>>]

RECURSIVE RunLoop(_, _, _, _, _, _)
RunLoop(st, d, b, i, om, som) ==
    IF i < Len(d) THEN RunLoop(LoopBody(st, d, b, i, om, som), d, b, i + 1, om, som) ELSE st

\* The whole function: what it returns for its four arguments.
detectOutliers3Sigmas(d, periodEnd, om, som) ==
    LET st == FinalClose(RunLoop(InitLoopState, d, Baseline(d), 0, om, som), d, periodEnd)
    IN  [warnings |-> st.warnings, alarms |-> st.alarms]

(***************************************************************************)
(* SpecDetect: one call of detectOutliers3Sigmas, stepped through its 3rd  *)
(* loop.  The arguments are those GetResults and the unit test pass: a     *)
(* series on the grid of a collection window, the window's end as          *)
(* PeriodEnd, and the two multipliers.                                     *)
(***************************************************************************)
ZeroReport ==
    [SiteId |-> "", OutliersDetectionMethod |-> "", CheckDateStart |-> 0, CheckDateEnd |-> 0,
     TimeAgo |-> 0, TimeStep |-> 0, DateStart |-> 0, DateEnd |-> 0,
     Result |-> [Warnings |-> <<>>, Alarms |-> <<>>]]

LoopState == [beginStep |-> beginStep, strongEvent |-> strongEvent,
              warnings |-> warnings, alarms |-> alarms]

InitDetect ==
    \E timeAgo \in 0..MaxTimeAgo, stepDuration \in 1..MaxTimeStep, om \in Multipliers, som \in Multipliers :
      \E series \in SeriesSet(CollectTime - timeAgo, CollectTime, stepDuration, MaxVal) :
        /\ pc = "loop"
        /\ data = series
        /\ baseline = Baseline(series)
        /\ PeriodEnd = CollectTime
        /\ outliersMultiplier = om
        /\ strongOutliersMultiplier = som
        /\ ind = 0
        /\ beginStep = -1
        /\ strongEvent = FALSE
        /\ warnings = <<>>
        /\ alarms = <<>>
        /\ siteData = [SiteId |-> "site-1", DateStart |-> CollectTime - timeAgo, DateEnd |-> CollectTime, Metrics |-> <<>>]
        /\ dataConf = [OutliersDetectionMethod |-> "3-sigmas", TimeAgo |-> timeAgo, TimeStep |-> stepDuration]
        /\ methodParams = [OutliersMultiplier |-> om, StrongOutliersMultiplier |-> som]
        /\ res = ZeroReport
        /\ metricInd = 1
        /\ attrInd = 1
        /\ clock = CollectTime
        /\ CollectorIdle

\* for ind := 0; ind < len(data); ind++ { ... }
LoopIteration ==
    /\ pc = "loop"
    /\ ind < Len(data)
    /\ LET st == LoopBody(LoopState, data, baseline, ind, outliersMultiplier, strongOutliersMultiplier)
       IN  /\ beginStep' = st.beginStep
           /\ strongEvent' = st.strongEvent
           /\ warnings' = st.warnings
           /\ alarms' = st.alarms
    /\ ind' = ind + 1
    /\ UNCHANGED <<pc, data, PeriodEnd, outliersMultiplier, strongOutliersMultiplier, baseline>>
    /\ UNCHANGED getResultsVars
    /\ UNCHANGED collectorVars

\* The loop is over: close what is open and return.
LoopExit ==
    /\ pc = "loop"
    /\ ~(ind < Len(data))
    /\ LET st == FinalClose(LoopState, data, PeriodEnd)
       IN  /\ warnings' = st.warnings
           /\ alarms' = st.alarms
    /\ pc' = "returned"
    /\ UNCHANGED <<ind, beginStep, strongEvent, data, PeriodEnd, outliersMultiplier, strongOutliersMultiplier, baseline>>
    /\ UNCHANGED getResultsVars
    /\ UNCHANGED collectorVars

NextDetect == LoopIteration \/ LoopExit

SpecDetect == InitDetect /\ [][NextDetect]_vars

(***************************************************************************)
(* Spec: one call of GetResults.  The site data is what collector.GetData  *)
(* builds for the dataset: a window [DateStart, DateEnd] and, per metric,  *)
(* an ordered attribute list; the series stored under an attribute lies on *)
(* the window's grid and is read once, by the iteration that analyses it.  *)
(***************************************************************************)
\* The metric lists GetData may return: no metric; a metric whose attributes
\* were all filtered out; metrics with one and with two attributes.
SiteMetrics ==
    { <<>>,
      <<[Metric |-> "Revenue", Attributes |-> <<>>], [Metric |-> "Visits", Attributes |-> <<"Total">>]>>,
      <<[Metric |-> "Revenue", Attributes |-> <<"Total", "Browser>Chrome">>]>>,
      <<[Metric |-> "Revenue", Attributes |-> <<"Total", "Browser>Chrome">>],
        [Metric |-> "Visits", Attributes |-> <<"Total">>]>> }

\* time.Now(): the clock has advanced by 0..MaxElapsed since it was last read.
Now == clock..(clock + MaxElapsed)

Init ==
    /\ pc = "start"
    /\ \E timeAgo \in 0..MaxSiteTimeAgo, stepDuration \in 1..MaxTimeStep, method \in Methods, metrics \in SiteMetrics :
         /\ siteData = [SiteId |-> "site-1", DateStart |-> CollectTime - timeAgo, DateEnd |-> CollectTime, Metrics |-> metrics]
         /\ dataConf = [OutliersDetectionMethod |-> method, TimeAgo |-> timeAgo, TimeStep |-> stepDuration]
    /\ \E om \in Multipliers, som \in Multipliers :
         methodParams = [OutliersMultiplier |-> om, StrongOutliersMultiplier |-> som]
    /\ res = ZeroReport
    /\ metricInd = 1
    /\ attrInd = 1
    /\ clock = CollectTime
    /\ CollectorIdle
    /\ data = <<>>
    /\ PeriodEnd = 0
    /\ outliersMultiplier = 0
    /\ strongOutliersMultiplier = 0
    /\ baseline = Baseline(<<>>)
    /\ ind = 0
    /\ beginStep = -1
    /\ strongEvent = FALSE
    /\ warnings = <<>>
    /\ alarms = <<>>

detectVars == <<data, PeriodEnd, outliersMultiplier, strongOutliersMultiplier, baseline,
                ind, beginStep, strongEvent, warnings, alarms>>

\* res := OutlierReport{...}
GetResultsStart ==
    /\ pc = "start"
    /\ \E now \in Now :
         /\ clock' = now
         /\ res' = [SiteId |-> siteData.SiteId,
                    OutliersDetectionMethod |-> dataConf.OutliersDetectionMethod,
                    CheckDateStart |-> now, CheckDateEnd |-> 0,
                    TimeAgo |-> dataConf.TimeAgo, TimeStep |-> dataConf.TimeStep,
                    DateStart |-> siteData.DateStart, DateEnd |-> siteData.DateEnd,
                    Result |-> [Warnings |-> <<>>, Alarms |-> <<>>]]
    /\ pc' = "traverse"
    /\ UNCHANGED <<siteData, dataConf, methodParams, metricInd, attrInd>>
    /\ UNCHANGED detectVars
    /\ UNCHANGED collectorVars

DetectionMethodAlways3Sigmas(method, d, periodEnd, om, som) ==
    detectOutliers3Sigmas(d, periodEnd, om, som)

\* switch res.OutliersDetectionMethod { case "3-sigmas": ... default: ... }
DetectionMethod(method, d, periodEnd, om, som) ==
    IF method = "3-sigmas"
    THEN detectOutliers3Sigmas(d, periodEnd, om, som)
    ELSE [warnings |-> <<>>, alarms |-> <<>>]

OutlierEventsFirstOnly(periods, metric, attribute) ==
    [i \in 1..(IF periods = <<>> THEN 0 ELSE 1) |->
        [OutlierPeriodStart |-> periods[i].outlierPeriodStart,
         OutlierPeriodEnd |-> periods[i].outlierPeriodEnd,
         Metric |-> metric, Attribute |-> attribute]]

\* newOutlierEvent := OutlierEvent{...}, for each period in turn.
OutlierEvents(periods, metric, attribute) ==
    [i \in 1..Len(periods) |->
        [OutlierPeriodStart |-> periods[i].outlierPeriodStart,
         OutlierPeriodEnd |-> periods[i].outlierPeriodEnd,
         Metric |-> metric, Attribute |-> attribute]]

AppendEventsInFront(events, periods, metric, attribute) ==
    OutlierEvents(periods, metric, attribute) \o events

\* for _, p := range periods { events = append(events, OutlierEvent{...}) }
AppendEvents(events, periods, metric, attribute) ==
    events \o OutlierEvents(periods, metric, attribute)

\* The arguments detectOutliers3Sigmas is called with, and its baseline;
\* the default branch makes no call.
CallArguments(method, series) ==
    IF method = "3-sigmas"
    THEN /\ data' = series
         /\ PeriodEnd' = siteData.DateEnd
         /\ outliersMultiplier' = methodParams.OutliersMultiplier
         /\ strongOutliersMultiplier' = methodParams.StrongOutliersMultiplier
         /\ baseline' = Baseline(series)
    ELSE UNCHANGED <<data, PeriodEnd, outliersMultiplier, strongOutliersMultiplier, baseline>>

\* One iteration of the inner range loop: detect on the attribute's series
\* and append what it returns to the report.  The callee's loop locals do
\* not outlive the call; warnings and alarms are GetResults' own.
\* metricData.AttributeData[attribute]: a series on the grid of the window,
\* or nil for an attribute the map does not hold.
StoredSeries(dateStart, dateEnd, stepDuration, maxVal) ==
    SeriesSet(dateStart, dateEnd, stepDuration, maxVal) \cup {<<>>}

ProcessAttribute ==
    /\ pc = "traverse"
    /\ metricInd <= Len(siteData.Metrics)
    /\ attrInd <= Len(siteData.Metrics[metricInd].Attributes)
    /\ \E series \in StoredSeries(siteData.DateStart, siteData.DateEnd, dataConf.TimeStep, MaxSiteVal) :
         \E got \in {DetectionMethod(res.OutliersDetectionMethod, series, siteData.DateEnd,
                                     methodParams.OutliersMultiplier,
                                     methodParams.StrongOutliersMultiplier)} :
           /\ CallArguments(res.OutliersDetectionMethod, series)
           /\ warnings' = got.warnings
           /\ alarms' = got.alarms
           /\ res' = [res EXCEPT
                  !.Result.Warnings = AppendEvents(@, got.warnings,
                                                   siteData.Metrics[metricInd].Metric,
                                                   siteData.Metrics[metricInd].Attributes[attrInd]),
                  !.Result.Alarms = AppendEvents(@, got.alarms,
                                                 siteData.Metrics[metricInd].Metric,
                                                 siteData.Metrics[metricInd].Attributes[attrInd])]
    /\ attrInd' = attrInd + 1
    /\ UNCHANGED <<pc, siteData, dataConf, methodParams, metricInd, clock>>
    /\ UNCHANGED <<ind, beginStep, strongEvent>>
    /\ UNCHANGED collectorVars

\* The inner range loop is over: the outer one moves to the next metric.
NextMetric ==
    /\ pc = "traverse"
    /\ metricInd <= Len(siteData.Metrics)
    /\ attrInd > Len(siteData.Metrics[metricInd].Attributes)
    /\ metricInd' = metricInd + 1
    /\ attrInd' = 1
    /\ UNCHANGED <<pc, siteData, dataConf, methodParams, res, clock>>
    /\ UNCHANGED detectVars
    /\ UNCHANGED collectorVars

RecordCheckDateEndAsStart(r, now) == [r EXCEPT !.CheckDateStart = now]

\* res.CheckDateEnd = time.Now()
RecordCheckDateEnd(r, now) == [r EXCEPT !.CheckDateEnd = now]

\* res.CheckDateEnd = time.Now(); return res
GetResultsReturn ==
    /\ pc = "traverse"
    /\ metricInd > Len(siteData.Metrics)
    /\ \E now \in Now :
         /\ clock' = now
         /\ res' = RecordCheckDateEnd(res, now)
    /\ pc' = "done"
    /\ UNCHANGED <<siteData, dataConf, methodParams, metricInd, attrInd>>
    /\ UNCHANGED detectVars
    /\ UNCHANGED collectorVars

Next == GetResultsStart \/ ProcessAttribute \/ NextMetric \/ GetResultsReturn

Spec == Init /\ [][Next]_vars

(***************************************************************************)
(* json.MarshalIndent on an OutlierReport: a JSON object per struct, keyed *)
(* by the json tags of its fields; a slice becomes an array and a          *)
(* time.Time its RFC 3339 text.                                            *)
(***************************************************************************)
MarshalTime(t) == <<"RFC3339", t>>

MarshalEvent(e) ==
    [outlierPeriodStart |-> MarshalTime(e.OutlierPeriodStart),
     outlierPeriodEnd |-> MarshalTime(e.OutlierPeriodEnd),
     metric |-> e.Metric, attribute |-> e.Attribute]

MarshalResults(r) ==
    [warnings |-> [i \in 1..Len(r.Warnings) |-> MarshalEvent(r.Warnings[i])],
     alarms |-> [i \in 1..Len(r.Alarms) |-> MarshalEvent(r.Alarms[i])]]

MarshalReportFlat(r) ==
    [siteId |-> r.SiteId, outliersDetectionMethod |-> r.OutliersDetectionMethod,
     checkTimeStart |-> MarshalTime(r.CheckDateStart), checkTimeEnd |-> MarshalTime(r.CheckDateEnd),
     timeAgo |-> r.TimeAgo, timeStep |-> r.TimeStep,
     dateStart |-> MarshalTime(r.DateStart), dateEnd |-> MarshalTime(r.DateEnd),
     warnings |-> MarshalResults(r.Result).warnings, alarms |-> MarshalResults(r.Result).alarms]

MarshalReport(r) ==
    [siteId |-> r.SiteId, outliersDetectionMethod |-> r.OutliersDetectionMethod,
     checkTimeStart |-> MarshalTime(r.CheckDateStart), checkTimeEnd |-> MarshalTime(r.CheckDateEnd),
     timeAgo |-> r.TimeAgo, timeStep |-> r.TimeStep,
     dateStart |-> MarshalTime(r.DateStart), dateEnd |-> MarshalTime(r.DateEnd),
     result |-> MarshalResults(r.Result)]

(***************************************************************************)
(* SpecRef: the call TestDetectOutliers3Sigmas makes, on its 30 values,    *)
(* one time step apart, with either pair of multipliers of the test.       *)
(***************************************************************************)
RefValues ==
    <<221, 254, 270, 264, 244, 241, 238, 243, 277, 237, 254, 289, 278, 264, 265,
      243, 284, 244, 212, 242, 271, 243, 252, 230, 238, 214, 234, 1027, 1057, 911>>

RefMultipliers == {<<2, 3>>, <<3, 4>>}

RefSeries(dateStart, dateEnd, stepDuration) ==
    LET grid == allocSteps(dateStart, dateEnd, stepDuration)
    IN  [i \in 1..Len(grid) |-> TimeStepData(grid[i], RefValues[i])]

InitRef ==
    \E stepDuration \in 1..MaxTimeStep, mults \in RefMultipliers :
      \E timeAgo \in ((Len(RefValues) - 1) * stepDuration + 1)..(Len(RefValues) * stepDuration) :
        /\ pc = "loop"
        /\ data = RefSeries(CollectTime - timeAgo, CollectTime, stepDuration)
        /\ baseline = Baseline(RefSeries(CollectTime - timeAgo, CollectTime, stepDuration))
        /\ PeriodEnd = CollectTime
        /\ outliersMultiplier = mults[1]
        /\ strongOutliersMultiplier = mults[2]
        /\ ind = 0
        /\ beginStep = -1
        /\ strongEvent = FALSE
        /\ warnings = <<>>
        /\ alarms = <<>>
        /\ siteData = [SiteId |-> "site-1", DateStart |-> CollectTime - timeAgo, DateEnd |-> CollectTime, Metrics |-> <<>>]
        /\ dataConf = [OutliersDetectionMethod |-> "3-sigmas", TimeAgo |-> timeAgo, TimeStep |-> stepDuration]
        /\ methodParams = [OutliersMultiplier |-> mults[1], StrongOutliersMultiplier |-> mults[2]]
        /\ res = ZeroReport
        /\ metricInd = 1
        /\ attrInd = 1
        /\ clock = CollectTime
        /\ CollectorIdle

SpecRef == InitRef /\ [][NextDetect]_vars

(***************************************************************************)
(* SpecFloat: SpecDetect's steps with the rounding of float64 in the sum   *)
(* and the mean.  A floating-point value is m * 2^e with a mantissa m of   *)
(* MantissaBits bits; every addition and division rounds its exact result  *)
(* to the nearest such value, ties to the even mantissa.  The values of a  *)
(* series are the floats of one binade, scaled so that every result is an  *)
(* integer.  The deviations, their squares and the comparisons stay exact. *)
(***************************************************************************)
RECURSIVE TwoPow(_)
TwoPow(n) == IF n = 0 THEN 1 ELSE 2 * TwoPow(n - 1)

\* The spacing of the floats around a / b: the largest power of two whose
\* multiples by a MantissaBits-bit mantissa reach a / b.
RECURSIVE Spacing(_, _, _)
Spacing(a, b, step) ==
    IF a >= b * TwoPow(MantissaBits) * step THEN Spacing(a, b, 2 * step) ELSE step

\* a / b rounded to the nearest float, ties to even.
RoundToFloat(a, b) ==
    LET unit == b * Spacing(a, b, 1)
        q == a \div unit
        r == a % unit
    IN  Spacing(a, b, 1) * (IF 2 * r > unit \/ (2 * r = unit /\ q % 2 = 1) THEN q + 1 ELSE q)

FloatValues == {2 * m : m \in TwoPow(MantissaBits - 1)..(TwoPow(MantissaBits) - 1)}

FloatSeriesSet(dateStart, dateEnd, stepDuration) ==
    LET grid == allocSteps(dateStart, dateEnd, stepDuration)
    IN  { [i \in 1..Len(grid) |-> TimeStepData(grid[i], vals[i])] :
            vals \in [1..Len(grid) -> FloatValues] }

\* sum += stepData.Value, rounded at every addition.
RECURSIVE FloatSumTo(_, _)
FloatSumTo(d, n) == IF n = 0 THEN 0 ELSE RoundToFloat(FloatSumTo(d, n - 1) + d[n].Value, 1)

\* mean = sum / float64(count), rounded.
FloatMean(d) == RoundToFloat(FloatSumTo(d, Len(d)), Len(d))

\* The baseline around the rounded mean: the sum field holds count * mean,
\* so that Dev(b, v) is count * (v - mean) for the mean the code holds.
FloatBaseline(d) ==
    IF d = <<>> THEN Baseline(d)
    ELSE [count |-> Len(d), sum |-> Len(d) * FloatMean(d),
          sqDevSum |-> SqDevSumTo(d, Len(d), Len(d) * FloatMean(d))]

InitFloat ==
    \E timeAgo \in 0..MaxTimeAgo, stepDuration \in 1..MaxTimeStep, om \in Multipliers, som \in Multipliers :
      \E series \in FloatSeriesSet(CollectTime - timeAgo, CollectTime, stepDuration) :
        /\ pc = "loop"
        /\ data = series
        /\ baseline = FloatBaseline(series)
        /\ PeriodEnd = CollectTime
        /\ outliersMultiplier = om
        /\ strongOutliersMultiplier = som
        /\ ind = 0
        /\ beginStep = -1
        /\ strongEvent = FALSE
        /\ warnings = <<>>
        /\ alarms = <<>>
        /\ siteData = [SiteId |-> "site-1", DateStart |-> CollectTime - timeAgo, DateEnd |-> CollectTime, Metrics |-> <<>>]
        /\ dataConf = [OutliersDetectionMethod |-> "3-sigmas", TimeAgo |-> timeAgo, TimeStep |-> stepDuration]
        /\ methodParams = [OutliersMultiplier |-> om, StrongOutliersMultiplier |-> som]
        /\ res = ZeroReport
        /\ metricInd = 1
        /\ attrInd = 1
        /\ clock = CollectTime
        /\ CollectorIdle

SpecFloat == InitFloat /\ [][NextDetect]_vars

(***************************************************************************)
(* SpecDuration: one call of utils.StrToDuration on a string of at most    *)
(* MaxStrLen characters.                                                   *)
(***************************************************************************)
Digits == {"0", "1", "2"}

\* The characters of the strings: digits, the letters of the units, and a
\* letter of no unit.
Chars == Digits \cup {"n", "u", "m", "s", "h", "d", "w", "x"}

Strings == UNION {[1..n -> Chars] : n \in 0..MaxStrLen}

\* All state outside the call of a collector-side function.
AnalyserIdle ==
    /\ siteData = [SiteId |-> "site-1", DateStart |-> CollectTime, DateEnd |-> CollectTime, Metrics |-> <<>>]
    /\ dataConf = [OutliersDetectionMethod |-> "3-sigmas", TimeAgo |-> 0, TimeStep |-> 1]
    /\ methodParams = [OutliersMultiplier |-> 0, StrongOutliersMultiplier |-> 0]
    /\ res = ZeroReport
    /\ metricInd = 1
    /\ attrInd = 1
    /\ clock = CollectTime
    /\ data = <<>>
    /\ PeriodEnd = 0
    /\ outliersMultiplier = 0
    /\ strongOutliersMultiplier = 0
    /\ baseline = Baseline(<<>>)
    /\ ind = 0
    /\ beginStep = -1
    /\ strongEvent = FALSE
    /\ warnings = <<>>
    /\ alarms = <<>>

\* var unitMap = map[string]int64{...}
unitMap ==
    (<<"n", "s">> :> [ZeroDuration EXCEPT !.ns = 1]) @@
    (<<"u", "s">> :> [ZeroDuration EXCEPT !.us = 1]) @@
    (<<"m", "s">> :> [ZeroDuration EXCEPT !.ms = 1]) @@
    (<<"s">> :> [ZeroDuration EXCEPT !.s = 1]) @@
    (<<"m">> :> [ZeroDuration EXCEPT !.m = 1]) @@
    (<<"h">> :> [ZeroDuration EXCEPT !.h = 1]) @@
    (<<"d">> :> [ZeroDuration EXCEPT !.h = 24]) @@
    (<<"w">> :> [ZeroDuration EXCEPT !.h = 168])

\* The units carried over into the next larger one.
Normalise(dur) ==
    LET us1 == dur.us + dur.ns \div 1000
        ms1 == dur.ms + us1 \div 1000
        s1 == dur.s + ms1 \div 1000
        m1 == dur.m + s1 \div 60
    IN  [ns |-> dur.ns % 1000, us |-> us1 % 1000, ms |-> ms1 % 1000,
         s |-> s1 % 60, m |-> m1 % 60, h |-> dur.h + m1 \div 60]

\* res += num * multiplier
AddDuration(dur, num, multiplier) ==
    Normalise([f \in DOMAIN dur |-> dur[f] + num * multiplier[f]])

DigitValue == ("0" :> 0) @@ ("1" :> 1) @@ ("2" :> 2)

\* strconv.ParseInt(digits, 10, 64) on a non-empty run of digits.
RECURSIVE ParseInt(_)
ParseInt(digits) ==
    IF digits = <<>> THEN 0
    ELSE 10 * ParseInt(SubSeq(digits, 1, Len(digits) - 1)) + DigitValue[digits[Len(digits)]]

InvalidDuration == [duration |-> ZeroDuration, err |-> "invalid duration"]

IndexOutOfRange == [duration |-> ZeroDuration, err |-> "panic: index out of range"]

RECURSIVE ScanDigitsNoEndCheck(_, _)
ScanDigitsNoEndCheck(str, i) ==
    IF i >= Len(str) THEN [i |-> i, stop |-> "panic"]
    ELSE IF str[i + 1] \in Digits THEN ScanDigitsNoEndCheck(str, i + 1)
    ELSE [i |-> i, stop |-> "unit"]

\* for timeStep[i] >= '0' && timeStep[i] <= '9' { i++; if i == len(timeStep) {return} }
\* with i 0-based as in the code; reading timeStep[i] at i >= len panics.
RECURSIVE ScanDigits(_, _)
ScanDigits(str, i) ==
    IF i >= Len(str) THEN [i |-> i, stop |-> "panic"]
    ELSE IF str[i + 1] \in Digits
         THEN IF i + 1 = Len(str) THEN [i |-> i + 1, stop |-> "end"] ELSE ScanDigits(str, i + 1)
    ELSE [i |-> i, stop |-> "unit"]

\* The outer loop, from position index with res accumulated so far.
RECURSIVE ParseLoop(_, _, _)
ParseLoop(str, index, dur) ==
    IF ~(index < Len(str)) THEN [duration |-> dur, err |-> "nil"]
    ELSE LET scan == ScanDigits(str, index)
             i == scan.i
             num == ParseInt(SubSeq(str, index + 1, i))
         IN  IF scan.stop = "panic" THEN IndexOutOfRange
             ELSE IF scan.stop = "end" THEN InvalidDuration
             ELSE IF i = index THEN InvalidDuration
             ELSE IF SubSeq(str, i + 1, i + 1) \in DOMAIN unitMap
                  THEN ParseLoop(str, i + 1, AddDuration(dur, num, unitMap[SubSeq(str, i + 1, i + 1)]))
             ELSE IF i + 1 < Len(str) /\ SubSeq(str, i + 1, i + 2) \in DOMAIN unitMap
                  THEN ParseLoop(str, i + 2, AddDuration(dur, num, unitMap[SubSeq(str, i + 1, i + 2)]))
             ELSE InvalidDuration

StrToDuration(str) ==
    IF Len(str) = 0 THEN InvalidDuration ELSE ParseLoop(str, 0, ZeroDuration)

InitDuration ==
    /\ pc = "parse"
    /\ timeStep \in Strings
    /\ parsed = [duration |-> ZeroDuration, err |-> "nil"]
    /\ metricData = [Attributes |-> <<>>, AttributeData |-> <<>>]
    /\ metricDataArg = metricData
    /\ collectFilters = [MinVisitorsPerTimeStep |-> 0, AttributesFilterParams |-> <<>>]
    /\ AllocIdle
    /\ AnalyserIdle

StrToDurationCall ==
    /\ pc = "parse"
    /\ parsed' = StrToDuration(timeStep)
    /\ pc' = "parsed"
    /\ UNCHANGED <<timeStep, metricData, metricDataArg, collectFilters, allocVars>>
    /\ UNCHANGED <<getResultsVars, detectVars>>

NextDuration == StrToDurationCall

SpecDuration == InitDuration /\ [][NextDuration]_vars


(***************************************************************************)
(* SpecFilter: one call of collector.filterData on the data of one metric. *)
(* An attribute path is a string, kept as its sequence of characters, so   *)
(* that strings.Split, strings.Count, strings.HasPrefix and the order of   *)
(* strings are what they are in the code.                                  *)
(***************************************************************************)
Total == <<"T", "o", "t", "a", "l">>

\* The attribute paths of the model: A>x, A>y, A>x>z and B>x.
AttributePaths ==
    { <<"A", ">", "x">>, <<"A", ">", "y">>, <<"A", ">", "x", ">", "z">>, <<"B", ">", "x">> }

\* The characters of the paths in the order of their bytes.
CharOrder == <<">", "A", "B", "T", "a", "l", "o", "t", "x", "y", "z">>

CharCode(c) == CHOOSE i \in 1..Len(CharOrder) : CharOrder[i] = c

\* a < b on strings: byte-wise lexicographic order.
RECURSIVE StringLess(_, _)
StringLess(a, b) ==
    IF b = <<>> THEN FALSE
    ELSE IF a = <<>> THEN TRUE
    ELSE IF a[1] # b[1] THEN CharCode(a[1]) < CharCode(b[1])
    ELSE StringLess(Tail(a), Tail(b))

\* strings.HasPrefix(str, prefix)
HasPrefix(str, prefix) ==
    Len(prefix) <= Len(str) /\ SubSeq(str, 1, Len(prefix)) = prefix

\* strings.Count(str, ">")
RECURSIVE CountSep(_)
CountSep(str) ==
    IF str = <<>> THEN 0 ELSE (IF str[1] = ">" THEN 1 ELSE 0) + CountSep(Tail(str))

\* strings.Split(str, ">"): the parts between the separators.
RECURSIVE SplitFrom(_, _)
SplitFrom(str, part) ==
    IF str = <<>> THEN <<part>>
    ELSE IF str[1] = ">" THEN <<part>> \o SplitFrom(Tail(str), <<>>)
    ELSE SplitFrom(Tail(str), Append(part, str[1]))

Split(str) == SplitFrom(str, <<>>)

\* strings.Join(parts, ">")
RECURSIVE Join(_)
Join(parts) ==
    IF parts = <<>> THEN <<>>
    ELSE IF Len(parts) = 1 THEN parts[1]
    ELSE parts[1] \o <<">">> \o Join(Tail(parts))

\* metricData.AttributeData[attribute]: nil for a key the map does not hold.
AttributeSeries(md, attribute) ==
    IF attribute \in DOMAIN md.AttributeData THEN md.AttributeData[attribute] ELSE <<>>

RECURSIVE SamplesTo(_, _)
SamplesTo(series, n) == IF n = 0 THEN 0 ELSE SamplesTo(series, n - 1) + series[n].Samples

GetSamplesCount(md, attribute) ==
    SamplesTo(AttributeSeries(md, attribute), Len(AttributeSeries(md, attribute)))

GetLevel(attribute) == CountSep(attribute)

GetRank(md, attribute) ==
    LET pathParts == Split(attribute)
        prefix == Join(SubSeq(pathParts, 1, Len(pathParts) - 1))
        attributeSamples == GetSamplesCount(md, attribute)
    IN  1 + Cardinality({ i \in 1..Len(md.Attributes) :
              LET compareAttribute == md.Attributes[i]
                  compareAttributeSamples == GetSamplesCount(md, compareAttribute)
              IN  /\ compareAttribute # attribute
                  /\ compareAttribute # prefix
                  /\ HasPrefix(compareAttribute, prefix)
                  /\ \/ compareAttributeSamples > attributeSamples
                     \/ /\ compareAttributeSamples = attributeSamples
                        /\ StringLess(compareAttribute, attribute) })

\* collectFilters.AttributesFilterParams[name]: the zero FilterParams for a
\* key the map does not hold.
FilterParamsOf(cf, name) ==
    IF name \in DOMAIN cf.AttributesFilterParams THEN cf.AttributesFilterParams[name]
    ELSE [Level |-> 0, Top |-> 0]

minSamplesPerStep(md, cf) == cf.MinVisitorsPerTimeStep

\* minSamples := collectFilters.MinVisitorsPerTimeStep * len(metricData.AttributeData["Total"])
minSamples(md, cf) == cf.MinVisitorsPerTimeStep * Len(AttributeSeries(md, Total))

toRemoveLevelInclusive(md, cf, attribute) ==
    LET samples == GetSamplesCount(md, attribute)
        level == GetLevel(attribute)
        rank == GetRank(md, attribute)
        params == FilterParamsOf(cf, Split(attribute)[1])
    IN  \/ params.Level # 0 /\ params.Level <= level
        \/ params.Level # 0 /\ params.Level = level /\ params.Top # 0 /\ params.Top < rank
        \/ samples < minSamples(md, cf)

\* The body of the first loop: whether the attribute is marked for removal.
toRemove(md, cf, attribute) ==
    LET samples == GetSamplesCount(md, attribute)
        level == GetLevel(attribute)
        rank == GetRank(md, attribute)
        params == FilterParamsOf(cf, Split(attribute)[1])
    IN  \/ params.Level # 0 /\ params.Level < level
        \/ params.Level # 0 /\ params.Level = level /\ params.Top # 0 /\ params.Top < rank
        \/ samples < minSamples(md, cf)

DeleteKeyKept(attributeData, key) == attributeData

\* delete(metricData.AttributeData, key)
DeleteKey(attributeData, key) ==
    [k \in DOMAIN attributeData \ {key} |-> attributeData[k]]

\* The second loop, from index at (1-based) down to the first attribute;
\* marks are those the first loop made on the list as it was.
RECURSIVE RemoveLoop(_, _, _)
RemoveLoop(md, marks, at) ==
    IF at = 0 THEN md
    ELSE IF marks[at]
         THEN RemoveLoop([Attributes |-> SubSeq(md.Attributes, 1, at - 1)
                                            \o SubSeq(md.Attributes, at + 1, Len(md.Attributes)),
                          AttributeData |-> DeleteKey(md.AttributeData, md.Attributes[at])],
                         marks, at - 1)
    ELSE RemoveLoop(md, marks, at - 1)

filterData(md, cf) ==
    RemoveLoop(md, [at \in 1..Len(md.Attributes) |-> toRemove(md, cf, md.Attributes[at])],
               Len(md.Attributes))

\* The attribute lists: "Total" and up to MaxAttributes distinct paths.
AttributeLists ==
    { <<Total>> \o paths :
        paths \in { q \in UNION {[1..n -> AttributePaths] : n \in 0..MaxAttributes} :
                      \A i, j \in 1..Len(q) : i # j => q[i] # q[j] } }

\* The series of one attribute on the grid, with any sample counts.
SampleSeriesSet(steps) ==
    { [i \in 1..steps |-> [DateStart |-> CollectTime - steps + i - 1, Value |-> 0, Samples |-> counts[i]]] :
        counts \in [1..steps -> 0..MaxStepSamples] }

\* The filter parameters: none, or parameters for the main attribute A.
FilterParamsMaps ==
    {<<>>} \cup { (<<"A">> :> [Level |-> level, Top |-> top]) : level \in 0..MaxLevel, top \in 0..MaxLevel }

InitFilter ==
    /\ pc = "filter"
    /\ \E attributes \in AttributeLists, steps \in 0..MaxSteps :
         \E attributeData \in [{attributes[i] : i \in 1..Len(attributes)} -> SampleSeriesSet(steps)] :
           metricData = [Attributes |-> attributes, AttributeData |-> attributeData]
    /\ metricDataArg = metricData
    /\ \E minVisitors \in 0..MaxMinVisitors, params \in FilterParamsMaps :
         collectFilters = [MinVisitorsPerTimeStep |-> minVisitors, AttributesFilterParams |-> params]
    /\ timeStep = <<>>
    /\ parsed = [duration |-> ZeroDuration, err |-> "nil"]
    /\ AllocIdle
    /\ AnalyserIdle

filterDataCall ==
    /\ pc = "filter"
    /\ metricData' = filterData(metricData, collectFilters)
    /\ pc' = "filtered"
    /\ UNCHANGED <<timeStep, parsed, metricDataArg, collectFilters, allocVars>>
    /\ UNCHANGED <<getResultsVars, detectVars>>

NextFilter == filterDataCall

SpecFilter == InitFilter /\ [][NextFilter]_vars


(***************************************************************************)
(* SpecAlloc: one call of collector.GetData up to the allocation of the    *)
(* time steps of one metric in generateData.  The two strings of the       *)
(* dataset use the unit h, and a tick of the time grid is one hour.  The   *)
(* loops of allocMasterData and allocAttributesData run one iteration per  *)
(* step; a series holds at most MaxAllocated samples in memory.            *)
(***************************************************************************)
\* The characters of the dataset strings: digits, the unit h and a letter of
\* no unit.
DatasetChars == Digits \cup {"h", "x"}

DatasetStrings == UNION {[1..n -> DatasetChars] : n \in 0..MaxDatasetStrLen}

\* A time.Duration of whole hours in ticks.
Ticks(dur) == dur.h

\* The paths in the order generateData allocates them: "Total", then the
\* attribute tree, every node followed by its sub-attributes.
AllocationOrder ==
    <<Total, <<"A", ">", "x">>, <<"A", ">", "x", ">", "z">>, <<"A", ">", "y">>, <<"B", ">", "x">> >>

NotAfter(t, u) == t <= u

\* t.Before(u)
Before(t, u) == t < u

InitAlloc ==
    /\ pc = "getData"
    /\ \E timeAgo \in DatasetStrings, step \in DatasetStrings :
         dataSet = [TimeAgo |-> timeAgo, TimeStep |-> step]
    /\ timeStepDuration = 0
    /\ pathInd = 1
    /\ dateStep = 0
    /\ newData = <<>>
    /\ timeStep = <<>>
    /\ parsed = [duration |-> ZeroDuration, err |-> "nil"]
    /\ metricData = [Attributes |-> <<>>, AttributeData |-> <<>>]
    /\ metricDataArg = metricData
    /\ collectFilters = [MinVisitorsPerTimeStep |-> 0, AttributesFilterParams |-> <<>>]
    /\ AnalyserIdle

\* GetData: the two conversions went through; the window is set and
\* generateData starts allocMasterData for "Total".
GetDataStart ==
    /\ pc = "getData"
    /\ StrToDuration(dataSet.TimeAgo).err = "nil"
    /\ StrToDuration(dataSet.TimeStep).err = "nil"
    /\ siteData' = [SiteId |-> siteData.SiteId,
                    DateStart |-> clock - Ticks(StrToDuration(dataSet.TimeAgo).duration),
                    DateEnd |-> clock,
                    Metrics |-> <<>>]
    /\ timeStepDuration' = Ticks(StrToDuration(dataSet.TimeStep).duration)
    /\ metricData' = [Attributes |-> <<>>, AttributeData |-> <<>>]
    /\ pathInd' = 1
    /\ dateStep' = siteData'.DateStart
    /\ newData' = <<>>
    /\ pc' = "alloc"
    /\ UNCHANGED <<dataSet, timeStep, parsed, metricDataArg, collectFilters>>
    /\ UNCHANGED <<dataConf, methodParams, res, metricInd, attrInd, clock>>
    /\ UNCHANGED detectVars

\* GetData: a conversion failed, log.Panic(err).
GetDataPanic ==
    /\ pc = "getData"
    /\ \/ StrToDuration(dataSet.TimeAgo).err # "nil"
       \/ StrToDuration(dataSet.TimeStep).err # "nil"
    /\ pc' = "panic"
    /\ UNCHANGED collectorVars
    /\ UNCHANGED <<getResultsVars, detectVars>>

\* for dateStep.Before(dateEnd) { append; dateStep = dateStep.Add(stepDuration) }
AllocStep ==
    /\ pc = "alloc"
    /\ Before(dateStep, siteData.DateEnd)
    /\ Len(newData) < MaxAllocated
    /\ newData' = Append(newData, TimeStepData(dateStep, 0))
    /\ dateStep' = dateStep + timeStepDuration
    /\ UNCHANGED <<pc, dataSet, timeStepDuration, pathInd, timeStep, parsed, metricData,
                   metricDataArg, collectFilters>>
    /\ UNCHANGED <<getResultsVars, detectVars>>

\* The loop goes on and append finds no memory for a larger series.
AllocOutOfMemory ==
    /\ pc = "alloc"
    /\ Before(dateStep, siteData.DateEnd)
    /\ Len(newData) >= MaxAllocated
    /\ pc' = "outOfMemory"
    /\ UNCHANGED collectorVars
    /\ UNCHANGED <<getResultsVars, detectVars>>

\* The loop is over: the path and its series are added to metricData, and
\* the allocation goes on with the next path of the tree.
AllocPathDone ==
    /\ pc = "alloc"
    /\ ~Before(dateStep, siteData.DateEnd)
    /\ metricData' =
         [Attributes |-> Append(metricData.Attributes, AllocationOrder[pathInd]),
          AttributeData |-> (AllocationOrder[pathInd] :> newData) @@ metricData.AttributeData]
    /\ IF pathInd < Len(AllocationOrder)
       THEN /\ pathInd' = pathInd + 1
            /\ dateStep' = siteData.DateStart
            /\ newData' = <<>>
            /\ pc' = pc
       ELSE /\ pc' = "allocated"
            /\ UNCHANGED <<pathInd, dateStep, newData>>
    /\ UNCHANGED <<dataSet, timeStepDuration, timeStep, parsed, metricDataArg, collectFilters>>
    /\ UNCHANGED <<getResultsVars, detectVars>>

NextAlloc == GetDataStart \/ GetDataPanic \/ AllocStep \/ AllocOutOfMemory \/ AllocPathDone

SpecAlloc == InitAlloc /\ [][NextAlloc]_vars

\* The loops of a running program go on.
FairSpecAlloc == SpecAlloc /\ WF_vars(NextAlloc)


(***************************************************************************)
(* Properties.                                                             *)
(***************************************************************************)
InLoop == pc = "loop" /\ ind < Len(data)

\* The sample the next loop iteration looks at, and its class (spec 4.2).
Sample == data[ind + 1]

Class ==
    IF AboveLimit(baseline, Sample.Value, strongOutliersMultiplier) THEN "STRONG"
    ELSE IF AboveLimit(baseline, Sample.Value, outliersMultiplier) THEN "WEAK"
    ELSE "NORMAL"

\* The period an interior close at the current sample emits.
ClosedHere == [outlierPeriodStart |-> data[beginStep + 1].DateStart,
               outlierPeriodEnd |-> Sample.DateStart]

NoneOpen == beginStep = -1
WeakOpen == beginStep # -1 /\ ~strongEvent
StrongOpen == beginStep # -1 /\ strongEvent

\* C1: every loop iteration of detectOutliers3Sigmas takes the row of the
\* nine-row transition table selected by the current state (none, weak open,
\* strong open) and the class of sample ind: the next state and the period
\* emitted are those of the table, an interior close running from the
\* timestamp of the open index to the timestamp of sample ind.
C1_TransitionTable ==
    [][ InLoop =>
          /\ (NoneOpen /\ Class = "NORMAL") =>
                beginStep' = -1 /\ warnings' = warnings /\ alarms' = alarms
          /\ (NoneOpen /\ Class = "WEAK") =>
                beginStep' = ind /\ ~strongEvent' /\ warnings' = warnings /\ alarms' = alarms
          /\ (NoneOpen /\ Class = "STRONG") =>
                beginStep' = ind /\ strongEvent' /\ warnings' = warnings /\ alarms' = alarms
          /\ (WeakOpen /\ Class = "WEAK") =>
                beginStep' = beginStep /\ ~strongEvent' /\ warnings' = warnings /\ alarms' = alarms
          /\ (WeakOpen /\ Class = "STRONG") =>
                beginStep' = ind /\ strongEvent'
                /\ warnings' = Append(warnings, ClosedHere) /\ alarms' = alarms
          /\ (WeakOpen /\ Class = "NORMAL") =>
                beginStep' = -1
                /\ warnings' = Append(warnings, ClosedHere) /\ alarms' = alarms
          /\ (StrongOpen /\ Class = "STRONG") =>
                beginStep' = beginStep /\ strongEvent' /\ warnings' = warnings /\ alarms' = alarms
          /\ (StrongOpen /\ Class = "WEAK") =>
                beginStep' = ind /\ ~strongEvent'
                /\ alarms' = Append(alarms, ClosedHere) /\ warnings' = warnings
          /\ (StrongOpen /\ Class = "NORMAL") =>
                beginStep' = -1
                /\ alarms' = Append(alarms, ClosedHere) /\ warnings' = warnings
          /\ ind' = ind + 1
      ]_vars

\* A warning was closed by a STRONG sample and the alarm it opened by a
\* later sample, whose end is that sample's timestamp, with the pass going on.
C1_Witness ==
    /\ pc = "loop"
    /\ Len(warnings) >= 1
    /\ Len(alarms) >= 1
    /\ warnings[1].outlierPeriodEnd = alarms[1].outlierPeriodStart
    /\ ind >= 1
    /\ alarms[Len(alarms)].outlierPeriodEnd = data[ind].DateStart

\* C2: when the loop is over, a period still open is emitted once more, as an
\* alarm if it is strong and as a warning if not, from the timestamp of the
\* open index to PeriodEnd; with no period open nothing more is emitted.
C2_FinalClose ==
    [][ (pc = "loop" /\ ~(ind < Len(data))) =>
          LET last == [outlierPeriodStart |-> data[beginStep + 1].DateStart,
                       outlierPeriodEnd |-> PeriodEnd]
          IN  /\ NoneOpen => warnings' = warnings /\ alarms' = alarms
              /\ WeakOpen => warnings' = Append(warnings, last) /\ alarms' = alarms
              /\ StrongOpen => alarms' = Append(alarms, last) /\ warnings' = warnings
      ]_vars

\* The function returned after closing an open period at a PeriodEnd that is
\* not one time step after the last sample.
C2_Witness ==
    /\ pc = "returned"
    /\ beginStep # -1
    /\ PeriodEnd # data[Len(data)].DateStart + dataConf.TimeStep
    /\ \/ strongEvent /\ alarms # <<>> /\ alarms[Len(alarms)].outlierPeriodEnd = PeriodEnd
       \/ ~strongEvent /\ warnings # <<>> /\ warnings[Len(warnings)].outlierPeriodEnd = PeriodEnd

\* |Sample.Value - mean| compared with mult * sd, both sides multiplied by
\* count and squared (the variance taken with divisor count).
SqDevTimesCount == Len(data) * Dev(baseline, Sample.Value) * Dev(baseline, Sample.Value)

SqLimitTimesCount(mult) == mult * mult * baseline.sqDevSum

AtLimit(mult) == SqDevTimesCount = SqLimitTimesCount(mult)

\* C3 as stated: a sample whose deviation is exactly the weak limit is
\* classified NORMAL, and one exactly at the strong limit is not STRONG.
C3_AtLimitIsNormal ==
    InLoop =>
        /\ AtLimit(outliersMultiplier) => Class = "NORMAL"
        /\ AtLimit(strongOutliersMultiplier) => Class # "STRONG"

\* C3, amended: a sample exactly at the weak limit is never WEAK, and is
\* NORMAL when weakLimit <= strongLimit; a sample exactly at the strong limit
\* is never STRONG.  Such a sample leaves no period of that severity open
\* and closes the open period of that severity.
C3_StrictLimits ==
    [][ InLoop =>
          /\ AtLimit(outliersMultiplier) =>
                /\ beginStep' = -1 \/ strongEvent'
                /\ outliersMultiplier <= strongOutliersMultiplier => beginStep' = -1
                /\ WeakOpen => warnings' = Append(warnings, ClosedHere)
          /\ AtLimit(strongOutliersMultiplier) =>
                /\ beginStep' = -1 \/ ~strongEvent'
                /\ StrongOpen => alarms' = Append(alarms, ClosedHere)
      ]_vars

\* A sample exactly at a non-zero weak limit closed an open warning and left
\* no period open.
C3_Witness ==
    /\ pc = "loop"
    /\ ind >= 1
    /\ outliersMultiplier >= 1
    /\ outliersMultiplier <= strongOutliersMultiplier
    /\ baseline.sqDevSum > 0
    /\ Len(data) * Dev(baseline, data[ind].Value) * Dev(baseline, data[ind].Value)
         = SqLimitTimesCount(outliersMultiplier)
    /\ beginStep = -1
    /\ warnings # <<>>
    /\ warnings[Len(warnings)].outlierPeriodEnd = data[ind].DateStart

\* C4: the baseline is the mean and the population standard deviation
\* (divisor N): the iteration leaves an alarm open exactly when
\* N*(v-mean)^2 > strong^2 * sum (v_i-mean)^2, and leaves a period open
\* exactly when that holds for the strong or for the weak multiplier.
C4_PopulationBaseline ==
    [][ InLoop =>
          /\ (beginStep' # -1 /\ strongEvent')
                <=> SqDevTimesCount > SqLimitTimesCount(strongOutliersMultiplier)
          /\ (beginStep' # -1)
                <=> \/ SqDevTimesCount > SqLimitTimesCount(strongOutliersMultiplier)
                    \/ SqDevTimesCount > SqLimitTimesCount(outliersMultiplier)
      ]_vars

\* On a series of at least three samples with a non-zero spread, one sample
\* was found above a non-zero weak limit and another one not.
C4_Witness ==
    /\ pc = "loop"
    /\ Len(data) >= 3
    /\ outliersMultiplier >= 1
    /\ strongOutliersMultiplier > outliersMultiplier
    /\ warnings # <<>>
    /\ beginStep = -1

\* Every period detected so far, of either kind.
Periods ==
    {[kind |-> "warning", pos |-> i, period |-> warnings[i]] : i \in 1..Len(warnings)}
      \cup {[kind |-> "alarm", pos |-> i, period |-> alarms[i]] : i \in 1..Len(alarms)}

StartsInOrder(list) ==
    \A i, j \in 1..Len(list) : i < j => list[i].outlierPeriodStart <= list[j].outlierPeriodStart

\* C5: within one detection run the emitted periods are pairwise disjoint
\* (two of them share at most a boundary instant) and each of the two lists
\* is in non-decreasing start order.
C5_DisjointOrdered ==
    /\ \A p, q \in Periods :
          p # q => \/ p.period.outlierPeriodEnd <= q.period.outlierPeriodStart
                   \/ q.period.outlierPeriodEnd <= p.period.outlierPeriodStart
    /\ StartsInOrder(warnings)
    /\ StartsInOrder(alarms)

\* The run returned two warnings with an alarm between them.
C5_Witness ==
    /\ pc = "returned"
    /\ Len(warnings) >= 2
    /\ Len(alarms) >= 1
    /\ warnings[1].outlierPeriodEnd = alarms[1].outlierPeriodStart
    /\ alarms[1].outlierPeriodEnd = warnings[2].outlierPeriodStart

\* C7: every period detectOutliers3Sigmas emits has start <= end, closed
\* inside the series or at PeriodEnd.
C7_StartBeforeEnd ==
    \A p \in Periods : p.period.outlierPeriodStart <= p.period.outlierPeriodEnd

\* The run returned a period closed inside the series and one closed at
\* PeriodEnd.
C7_Witness ==
    /\ pc = "returned"
    /\ \E p \in Periods : p.period.outlierPeriodEnd < PeriodEnd
    /\ \E p \in Periods : p.period.outlierPeriodEnd = PeriodEnd

\* Every event of the report built so far, of either list.
ReportEvents ==
    {res.Result.Warnings[i] : i \in 1..Len(res.Result.Warnings)}
      \cup {res.Result.Alarms[i] : i \in 1..Len(res.Result.Alarms)}

\* C6: every warning and every alarm of the report GetResults builds lies
\* within the report's window: DateStart <= OutlierPeriodStart and
\* OutlierPeriodEnd <= DateEnd.
C6_EventsWithinWindow ==
    \A e \in ReportEvents :
        /\ res.DateStart <= e.OutlierPeriodStart
        /\ e.OutlierPeriodEnd <= res.DateEnd

\* A returned report holds a warning and an alarm, an event that starts at
\* DateStart and an event that ends at DateEnd.
C6_Witness ==
    /\ pc = "done"
    /\ res.Result.Warnings # <<>>
    /\ res.Result.Alarms # <<>>
    /\ \E e \in ReportEvents : e.OutlierPeriodStart = res.DateStart
    /\ \E e \in ReportEvents : e.OutlierPeriodEnd = res.DateEnd

\* C8: with a method name other than "3-sigmas" every detection result is
\* empty and so are the report's two lists; the call never stops before it
\* returns, and it returns only after the last metric was traversed.
C8_UnknownMethodEmptyReport ==
    dataConf.OutliersDetectionMethod # "3-sigmas" =>
        /\ warnings = <<>>
        /\ alarms = <<>>
        /\ res.Result.Warnings = <<>>
        /\ res.Result.Alarms = <<>>
        /\ pc # "done" => ENABLED Next
        /\ pc = "done" => metricInd > Len(siteData.Metrics)

\* A report was returned for an unknown method after a traversal of two
\* metrics and three attributes with non-empty series.
C8_Witness ==
    /\ pc = "done"
    /\ res.OutliersDetectionMethod = "iqr"
    /\ Len(siteData.Metrics) = 2
    /\ Len(siteData.Metrics[1].Attributes) = 2
    /\ siteData.DateStart < siteData.DateEnd

\* Position of a metric in the site's metric list, and of an attribute in
\* that metric's attribute list.
MetricPos(metric) ==
    CHOOSE m \in 1..Len(siteData.Metrics) : siteData.Metrics[m].Metric = metric

AttributePos(metric, attribute) ==
    CHOOSE a \in 1..Len(siteData.Metrics[MetricPos(metric)].Attributes) :
        siteData.Metrics[MetricPos(metric)].Attributes[a] = attribute

SourceOrder(events) ==
    \A i, j \in 1..Len(events) :
        i < j =>
            \/ MetricPos(events[i].Metric) < MetricPos(events[j].Metric)
            \/ /\ events[i].Metric = events[j].Metric
               /\ \/ AttributePos(events[i].Metric, events[i].Attribute)
                       < AttributePos(events[j].Metric, events[j].Attribute)
                  \/ /\ events[i].Attribute = events[j].Attribute
                     /\ events[i].OutlierPeriodStart <= events[j].OutlierPeriodStart

\* The last Len(periods) events of the list are the periods, in their order,
\* under the label of the attribute that was just analysed.
EndsWithLastResult(events, periods) ==
    /\ Len(events) >= Len(periods)
    /\ SubSeq(events, Len(events) - Len(periods) + 1, Len(events))
         = OutlierEvents(periods, siteData.Metrics[metricInd].Metric,
                         siteData.Metrics[metricInd].Attributes[attrInd - 1])

\* C9: each list of the report is in source order: by metric, then by
\* attribute within the metric, then in the chronological order detection
\* returned; what an iteration appends is what detection returned, unsorted.
C9_SourceOrder ==
    /\ SourceOrder(res.Result.Warnings)
    /\ SourceOrder(res.Result.Alarms)
    /\ (pc = "traverse" /\ metricInd <= Len(siteData.Metrics) /\ attrInd > 1) =>
          /\ EndsWithLastResult(res.Result.Warnings, warnings)
          /\ EndsWithLastResult(res.Result.Alarms, alarms)

\* The returned warnings come from two attributes of the first metric and
\* from the second metric, two of them from the same attribute.
C9_Witness ==
    /\ pc = "done"
    /\ Len(siteData.Metrics) = 2
    /\ \E i, j, k, l \in 1..Len(res.Result.Warnings) :
          /\ i < j /\ j < k /\ k < l
          /\ res.Result.Warnings[i].Metric = "Revenue"
          /\ res.Result.Warnings[i].Attribute = "Total"
          /\ res.Result.Warnings[j].Metric = "Revenue"
          /\ res.Result.Warnings[j].Attribute = "Total"
          /\ res.Result.Warnings[k].Metric = "Revenue"
          /\ res.Result.Warnings[k].Attribute = "Browser>Chrome"
          /\ res.Result.Warnings[l].Metric = "Visits"

\* C10: on the 30 reference values with multipliers 2 and 3, detection
\* returns exactly one alarm [t_27, t_29] and exactly one warning
\* [t_29, PeriodEnd].
C10_ReferenceScenario ==
    (pc = "returned" /\ outliersMultiplier = 2 /\ strongOutliersMultiplier = 3) =>
        /\ alarms = <<NewEvent(data[28].DateStart, data[30].DateStart)>>
        /\ warnings = <<NewEvent(data[30].DateStart, PeriodEnd)>>

\* The run on the reference values with multipliers 2 and 3 returned, with
\* an alarm and a warning.
C10_Witness ==
    /\ pc = "returned"
    /\ Len(data) = 30
    /\ outliersMultiplier = 2
    /\ strongOutliersMultiplier = 3
    /\ alarms # <<>>
    /\ warnings # <<>>

\* C11: on the 30 reference values with multipliers 3 and 4, detection
\* returns no alarm and exactly one warning [t_27, t_29].
C11_ReferenceScenarioNoAlarm ==
    (pc = "returned" /\ outliersMultiplier = 3 /\ strongOutliersMultiplier = 4) =>
        /\ alarms = <<>>
        /\ warnings = <<NewEvent(data[28].DateStart, data[30].DateStart)>>

\* The run on the reference values with multipliers 3 and 4 returned, with
\* a warning that was closed before the end of the series.
C11_Witness ==
    /\ pc = "returned"
    /\ Len(data) = 30
    /\ outliersMultiplier = 3
    /\ strongOutliersMultiplier = 4
    /\ beginStep = -1
    /\ warnings # <<>>

WithSamples(d, samples) == [i \in 1..Len(d) |-> [d[i] EXCEPT !.Samples = samples[i]]]

\* C13: the weights do not influence detection: the lists returned for a
\* series are the lists detection returns for every series with the same
\* timestamps and values and any other Samples fields.
C13_SamplesIgnored ==
    pc = "returned" =>
        \A samples \in [1..Len(data) -> {0, MaxSamples}] :
            detectOutliers3Sigmas(WithSamples(data, samples), PeriodEnd,
                                  outliersMultiplier, strongOutliersMultiplier)
                = [warnings |-> warnings, alarms |-> alarms]

\* A call on a series of three or more distinct values returned a warning
\* and an alarm.
C13_Witness ==
    /\ pc = "returned"
    /\ Len(data) >= 3
    /\ \A i, j \in 1..Len(data) : i # j => data[i].Value # data[j].Value
    /\ warnings # <<>>
    /\ alarms # <<>>

\* The events of a list that carry the label (metric, attribute), in order.
Labelled(events, metric, attribute) ==
    SelectSeq(events, LAMBDA e : e.Metric = metric /\ e.Attribute = attribute)

\* The periods as events under the label, one for one and in order.
PeriodsAsEvents(periods, metric, attribute) ==
    [i \in 1..Len(periods) |->
        [OutlierPeriodStart |-> periods[i].outlierPeriodStart,
         OutlierPeriodEnd |-> periods[i].outlierPeriodEnd,
         Metric |-> metric, Attribute |-> attribute]]

\* What detection returns for the series alone, with the site's boundary
\* and the configured multipliers.
DetectedAlone(series) ==
    detectOutliers3Sigmas(series, siteData.DateEnd, methodParams.OutliersMultiplier,
                          methodParams.StrongOutliersMultiplier)

\* C14: each attribute is detected on its own and nothing is filtered or
\* aggregated: the iteration that analyses (metric, attribute) makes the
\* report's events under that label exactly the periods detection returns
\* for that series alone, one for one and in order, and no step changes the
\* events under any other label.
C14_AttributesIndependent ==
    [][ (pc = "traverse" /\ res.OutliersDetectionMethod = "3-sigmas") =>
          \A m \in 1..Len(siteData.Metrics) :
            \A a \in 1..Len(siteData.Metrics[m].Attributes) :
              LET metric == siteData.Metrics[m].Metric
                  attribute == siteData.Metrics[m].Attributes[a]
              IN  IF m = metricInd /\ a = attrInd /\ attrInd' = attrInd + 1
                  THEN /\ Labelled(res'.Result.Warnings, metric, attribute)
                            = PeriodsAsEvents(DetectedAlone(data').warnings, metric, attribute)
                       /\ Labelled(res'.Result.Alarms, metric, attribute)
                            = PeriodsAsEvents(DetectedAlone(data').alarms, metric, attribute)
                  ELSE /\ Labelled(res'.Result.Warnings, metric, attribute)
                            = Labelled(res.Result.Warnings, metric, attribute)
                       /\ Labelled(res'.Result.Alarms, metric, attribute)
                            = Labelled(res.Result.Alarms, metric, attribute)
      ]_vars

\* A returned report holds two warnings of one attribute, none of the next
\* attribute of the same metric, and one of an attribute of another metric.
C14_Witness ==
    /\ pc = "done"
    /\ Len(siteData.Metrics) = 2
    /\ Len(Labelled(res.Result.Warnings, "Revenue", "Total")) = 2
    /\ Len(Labelled(res.Result.Warnings, "Revenue", "Browser>Chrome")) = 0
    /\ Len(Labelled(res.Result.Alarms, "Revenue", "Browser>Chrome")) = 1
    /\ Len(Labelled(res.Result.Warnings, "Visits", "Total")) = 1

ConstantSeries(d) == d # <<>> /\ \A i, j \in 1..Len(d) : d[i].Value = d[j].Value

\* C15: for a non-empty series whose values are all equal, detection
\* returns no warnings and no alarms, whatever the multipliers.
C15_ConstantSeriesNoEvents ==
    (pc = "returned" /\ ConstantSeries(data)) => (warnings = <<>> /\ alarms = <<>>)

\* The duration of one unit as the specification of the strings gives it:
\* ns, us, ms, s, m, h, d = 24h, w = 168h.
UnitDuration(unit) ==
    CASE unit = <<"n", "s">> -> [ZeroDuration EXCEPT !.ns = 1]
      [] unit = <<"u", "s">> -> [ZeroDuration EXCEPT !.us = 1]
      [] unit = <<"m", "s">> -> [ZeroDuration EXCEPT !.ms = 1]
      [] unit = <<"s">> -> [ZeroDuration EXCEPT !.s = 1]
      [] unit = <<"m">> -> [ZeroDuration EXCEPT !.m = 1]
      [] unit = <<"h">> -> [ZeroDuration EXCEPT !.h = 1]
      [] unit = <<"d">> -> [ZeroDuration EXCEPT !.h = 24]
      [] unit = <<"w">> -> [ZeroDuration EXCEPT !.h = 168]

\* The first position at or after i (1-based) that holds no digit.
RECURSIVE DigitsEnd(_, _)
DigitsEnd(str, i) == IF i <= Len(str) /\ str[i] \in Digits THEN DigitsEnd(str, i + 1) ELSE i

\* The unit that follows a number ending before position j: a two-letter
\* unit where there is one, else a one-letter unit, else none.
UnitAt(str, j) ==
    IF j + 1 <= Len(str) /\ SubSeq(str, j, j + 1) \in {<<"n", "s">>, <<"u", "s">>, <<"m", "s">>}
    THEN SubSeq(str, j, j + 1)
    ELSE IF j <= Len(str) /\ SubSeq(str, j, j) \in {<<"s">>, <<"m">>, <<"h">>, <<"d">>, <<"w">>}
    THEN SubSeq(str, j, j)
    ELSE <<>>

\* The string from position i on read as <number><unit> pairs: whether it
\* is a concatenation of such pairs, and the sum of number * unit.
RECURSIVE PairsFrom(_, _)
PairsFrom(str, i) ==
    IF i > Len(str) THEN [ok |-> TRUE, sum |-> ZeroDuration]
    ELSE LET j == DigitsEnd(str, i)
             unit == UnitAt(str, j)
             rest == PairsFrom(str, j + Len(unit))
         IN  IF j = i \/ unit = <<>> \/ ~rest.ok THEN [ok |-> FALSE, sum |-> ZeroDuration]
             ELSE [ok |-> TRUE,
                   sum |-> AddDuration(rest.sum, ParseInt(SubSeq(str, i, j - 1)), UnitDuration(unit))]

WellFormed(str) == str # <<>> /\ PairsFrom(str, 1).ok

\* C16: StrToDuration accepts every concatenation of <number><unit> pairs
\* with a unit of ns, us, ms, s, m, h, d, w and returns the sum of
\* number * unit.
C16_AcceptsEveryPair ==
    (pc = "parsed" /\ WellFormed(timeStep)) =>
        parsed = [duration |-> PairsFrom(timeStep, 1).sum, err |-> "nil"]

\* C17: StrToDuration returns an error and the zero duration for every
\* string that is not a concatenation of <number><unit> pairs, and reads no
\* character past the end of the string on any input.
C17_MalformedRejected ==
    pc = "parsed" =>
        /\ parsed.err # "panic: index out of range"
        /\ ~WellFormed(timeStep) => parsed = InvalidDuration

\* The call rejected a string whose first pair is well formed and whose
\* second pair has an unknown unit.
C17_Witness ==
    /\ pc = "parsed"
    /\ timeStep = <<"1", "h", "2", "x">>
    /\ parsed.err = "invalid duration"

\* C18 as stated: the serialized report has exactly the top-level fields
\* siteId, methodName, checkStart, checkEnd, timeAgo, timeStep, seriesStart,
\* seriesEnd, warnings and alarms.
C18_FieldNamesAsStated ==
    pc = "done" =>
        DOMAIN MarshalReport(res)
            = {"siteId", "methodName", "checkStart", "checkEnd", "timeAgo", "timeStep",
               "seriesStart", "seriesEnd", "warnings", "alarms"}

\* C18, amended: the serialized report has exactly the top-level fields
\* siteId, outliersDetectionMethod, checkTimeStart, checkTimeEnd, timeAgo,
\* timeStep, dateStart, dateEnd and result; result has exactly the fields
\* warnings and alarms, the lists of the report's events, one object with
\* outlierPeriodStart, outlierPeriodEnd, metric and attribute per event.
C18_FieldNames ==
    pc = "done" =>
        /\ DOMAIN MarshalReport(res)
             = {"siteId", "outliersDetectionMethod", "checkTimeStart", "checkTimeEnd",
                "timeAgo", "timeStep", "dateStart", "dateEnd", "result"}
        /\ DOMAIN MarshalReport(res).result = {"warnings", "alarms"}
        /\ Len(MarshalReport(res).result.warnings) = Len(res.Result.Warnings)
        /\ Len(MarshalReport(res).result.alarms) = Len(res.Result.Alarms)
        /\ \A i \in 1..Len(res.Result.Warnings) :
              DOMAIN MarshalReport(res).result.warnings[i]
                  = {"outlierPeriodStart", "outlierPeriodEnd", "metric", "attribute"}
        /\ \A i \in 1..Len(res.Result.Alarms) :
              DOMAIN MarshalReport(res).result.alarms[i]
                  = {"outlierPeriodStart", "outlierPeriodEnd", "metric", "attribute"}

\* A returned report with a warning and an alarm is serialized.
C18_Witness ==
    /\ pc = "done"
    /\ res.SiteId = "site-1"
    /\ MarshalReport(res).result.warnings # <<>>
    /\ MarshalReport(res).result.alarms # <<>>

\* C19: the clock is read for CheckDateStart before the first detection
\* call and for CheckDateEnd after the last event was appended: every step
\* that detects or appends is taken after the first reading and before the
\* second, and a returned report has CheckDateStart <= CheckDateEnd.
C19_CheckDatesBracketDetection ==
    [][ /\ pc = "start" => (pc' = "traverse" /\ res'.CheckDateStart = clock' /\ clock <= clock')
        /\ (\/ warnings' # warnings \/ alarms' # alarms \/ data' # data
            \/ attrInd' # attrInd \/ res'.Result # res.Result) =>
              /\ pc = "traverse" /\ pc' = "traverse"
              /\ res'.CheckDateStart = res.CheckDateStart
              /\ res.CheckDateStart <= clock
              /\ res'.CheckDateEnd = 0
        /\ pc' = "done" =>
              /\ res'.Result = res.Result
              /\ res'.CheckDateStart = res.CheckDateStart
              /\ res'.CheckDateEnd = clock'
              /\ res'.CheckDateStart <= res'.CheckDateEnd
      ]_vars

\* A report was returned with events of three attributes, the clock having
\* advanced between the two readings.
C19_Witness ==
    /\ pc = "done"
    /\ res.CheckDateStart < res.CheckDateEnd
    /\ Len(siteData.Metrics) = 2
    /\ Len(res.Result.Warnings) + Len(res.Result.Alarms) >= 3

\* The attributes a list holds.
Listed(attributes) == {attributes[i] : i \in 1..Len(attributes)}

\* The sum of the Samples of a series.
RECURSIVE SamplesSum(_)
SamplesSum(series) == IF series = <<>> THEN 0 ELSE series[1].Samples + SamplesSum(Tail(series))

\* C20: with no attribute filter parameters configured, filterData retains
\* an attribute exactly when the sum of its Samples over all time steps is at
\* least MinVisitorsPerTimeStep times the number of time steps of "Total";
\* every other attribute is removed from Attributes and from AttributeData.
C20_MinimumSamplesFilter ==
    [][ (pc = "filter" /\ DOMAIN collectFilters.AttributesFilterParams = {}) =>
          LET threshold == collectFilters.MinVisitorsPerTimeStep * Len(metricData.AttributeData[Total])
              retained == { a \in Listed(metricData.Attributes) :
                              SamplesSum(metricData.AttributeData[a]) >= threshold }
          IN  /\ Listed(metricData'.Attributes) = retained
              /\ DOMAIN metricData'.AttributeData = retained
              /\ \A a \in retained : metricData'.AttributeData[a] = metricData.AttributeData[a]
      ]_vars

\* A call with no filter parameters returned "Total" and one path of two
\* samples, on series of two time steps and a minimum of one per step.
C20_Witness ==
    /\ pc = "filtered"
    /\ DOMAIN collectFilters.AttributesFilterParams = {}
    /\ collectFilters.MinVisitorsPerTimeStep = 1
    /\ Len(metricData.Attributes) = 2
    /\ metricData.Attributes[1] = Total
    /\ Len(metricData.AttributeData[Total]) = 2
    /\ SamplesSum(metricData.AttributeData[metricData.Attributes[2]]) = 2

\* The depth of a path: its number of '>' separators.
Depth(a) == Cardinality({ i \in 1..Len(a) : a[i] = ">" })

\* The main attribute of a path: what precedes its first separator.
MainAttribute(a) ==
    LET stops == { i \in 1..Len(a) : a[i] = ">" } \cup {Len(a) + 1}
    IN  SubSeq(a, 1, (CHOOSE i \in stops : \A j \in stops : i <= j) - 1)

\* The Level and the Top configured for the main attribute of a path, 0 when
\* none is configured.
LevelOf(a) ==
    IF MainAttribute(a) \in DOMAIN collectFilters.AttributesFilterParams
    THEN collectFilters.AttributesFilterParams[MainAttribute(a)].Level ELSE 0

TopOf(a) ==
    IF MainAttribute(a) \in DOMAIN collectFilters.AttributesFilterParams
    THEN collectFilters.AttributesFilterParams[MainAttribute(a)].Top ELSE 0

\* The path passes the minimum-samples rule of the call under way.
EnoughSamples(a) ==
    SamplesSum(metricDataArg.AttributeData[a]) >=
        collectFilters.MinVisitorsPerTimeStep * Len(metricDataArg.AttributeData[Total])

\* The result of the call holds the path, in Attributes and in AttributeData.
Retained(a) ==
    /\ a \in Listed(metricData.Attributes)
    /\ a \in DOMAIN metricData.AttributeData

Removed(a) ==
    /\ a \notin Listed(metricData.Attributes)
    /\ a \notin DOMAIN metricData.AttributeData

\* C21: after filterData, a path whose main attribute has Level L # 0 and
\* whose depth is greater than L is removed; a path of depth < L, or of depth
\* L with Top = 0, is retained exactly when it passes the minimum-samples
\* rule; so is every path whose main attribute has Level 0 or no parameters
\* ("Total" included).
C21_LevelFilter ==
    pc = "filtered" =>
      \A a \in Listed(metricDataArg.Attributes) :
        /\ (LevelOf(a) # 0 /\ Depth(a) > LevelOf(a)) => Removed(a)
        /\ (LevelOf(a) # 0 /\ Depth(a) < LevelOf(a)) => (Retained(a) <=> EnoughSamples(a))
        /\ (LevelOf(a) # 0 /\ Depth(a) = LevelOf(a) /\ TopOf(a) = 0) =>
               (Retained(a) <=> EnoughSamples(a))
        /\ LevelOf(a) = 0 => (Retained(a) <=> EnoughSamples(a))
        /\ Retained(a) \/ Removed(a)

\* A call with Level 1 for main attribute A removed A>x>z, which passed the
\* minimum-samples rule, and retained A>x, B>x and "Total".
C21_Witness ==
    /\ pc = "filtered"
    /\ <<"A">> \in DOMAIN collectFilters.AttributesFilterParams
    /\ collectFilters.AttributesFilterParams[<<"A">>].Level = 1
    /\ collectFilters.MinVisitorsPerTimeStep = 1
    /\ Len(metricDataArg.AttributeData[Total]) = 2
    /\ metricDataArg.Attributes = <<Total, <<"A", ">", "x">>, <<"A", ">", "x", ">", "z">>, <<"B", ">", "x">> >>
    /\ EnoughSamples(<<"A", ">", "x", ">", "z">>)
    /\ metricData.Attributes = <<Total, <<"A", ">", "x">>, <<"B", ">", "x">> >>

\* The parent of a path: what precedes its last separator.
Parent(a) ==
    LET stops == { i \in 1..Len(a) : a[i] = ">" } \cup {1}
    IN  SubSeq(a, 1, (CHOOSE i \in stops : \A j \in stops : i >= j) - 1)

\* The peers of a path in the list passed: the other paths with the same
\* parent at the same depth.
Peers(a) ==
    { b \in Listed(metricDataArg.Attributes) \ {a} : Parent(b) = Parent(a) /\ Depth(b) = Depth(a) }

\* "Alphabetically smaller": the order of strings, first difference first.
Alphabetical(a, b) ==
    \E k \in 1..Len(b) :
      /\ k <= Len(a) + 1
      /\ SubSeq(a, 1, k - 1) = SubSeq(b, 1, k - 1)
      /\ k = Len(a) + 1 \/ CharCode(a[k]) < CharCode(b[k])

\* 1 plus the number of peers with a larger total sample count, or an equal
\* count and an alphabetically smaller path.
PeerRank(a) ==
    LET samples(b) == SamplesSum(metricDataArg.AttributeData[b])
    IN  1 + Cardinality({ b \in Peers(a) :
              \/ samples(b) > samples(a)
              \/ samples(b) = samples(a) /\ Alphabetical(b, a) })

\* C22: after filterData, a path at depth L under a main attribute with
\* parameters {Level: L, Top: T}, L # 0 and T # 0, is retained exactly when
\* it passes the minimum-samples rule and its rank among its peers is at
\* most T.
C22_TopFilterByPeers ==
    pc = "filtered" =>
      \A a \in Listed(metricDataArg.Attributes) :
        (LevelOf(a) # 0 /\ TopOf(a) # 0 /\ Depth(a) = LevelOf(a)) =>
            (Retained(a) <=> (EnoughSamples(a) /\ PeerRank(a) <= TopOf(a)))

\* The class of sample i (0-based) of the series under detection.
ClassOf(i) ==
    IF AboveLimit(baseline, data[i + 1].Value, strongOutliersMultiplier) THEN "STRONG"
    ELSE IF AboveLimit(baseline, data[i + 1].Value, outliersMultiplier) THEN "WEAK"
    ELSE "NORMAL"

\* The situation of a processed index at the current point of the pass.
InOpenWarning(i) == beginStep # -1 /\ ~strongEvent /\ i >= beginStep
InOpenAlarm(i) == beginStep # -1 /\ strongEvent /\ i >= beginStep
InNoOpenPeriod(i) == beginStep = -1 \/ i < beginStep

\* C23: at every point of the detection pass at most one period is open.
\* The open index, if any, is a processed index; every processed index is in
\* exactly one of the situations no period open, inside the open warning
\* period, inside the open alarm period; the indices inside the open warning
\* are WEAK and those inside the open alarm STRONG; with no period open the
\* last processed sample is NORMAL; and every period emitted so far ends at
\* or before the start of the open one.
C23_OnePeriodOpen ==
    pc = "loop" =>
      /\ beginStep = -1 \/ beginStep \in 0..(ind - 1)
      /\ \A i \in 0..(ind - 1) :
           /\ Cardinality({ s \in {"none", "warning", "alarm"} :
                              \/ s = "none" /\ InNoOpenPeriod(i)
                              \/ s = "warning" /\ InOpenWarning(i)
                              \/ s = "alarm" /\ InOpenAlarm(i) }) = 1
           /\ InOpenWarning(i) => ClassOf(i) = "WEAK"
           /\ InOpenAlarm(i) => ClassOf(i) = "STRONG"
      /\ (beginStep = -1 /\ ind > 0) => ClassOf(ind - 1) = "NORMAL"
      /\ beginStep # -1 =>
           \A k \in 1..Len(warnings \o alarms) :
             (warnings \o alarms)[k].outlierPeriodEnd <= data[beginStep + 1].DateStart

\* A warning is open at its second sample after an alarm was closed.
C23_Witness ==
    /\ pc = "loop"
    /\ beginStep >= 1
    /\ ~strongEvent
    /\ ind = beginStep + 2
    /\ Len(alarms) >= 1

\* The maximal runs of class c in the series: pairs <<b, e>> (0-based) with
\* samples b..e-1 of class c, sample b-1 (if any) and sample e (if any) not.
MaximalRuns(c) ==
    { r \in (0..(Len(data) - 1)) \X (1..Len(data)) :
        /\ r[1] < r[2]
        /\ \A i \in r[1]..(r[2] - 1) : ClassOf(i) = c
        /\ r[1] > 0 => ClassOf(r[1] - 1) # c
        /\ r[2] < Len(data) => ClassOf(r[2]) # c }

\* The period of a run: from the timestamp of its first sample to the
\* timestamp of the sample that ends it, PeriodEnd at the end of the series.
RunPeriod(r) ==
    [outlierPeriodStart |-> data[r[1] + 1].DateStart,
     outlierPeriodEnd |-> IF r[2] < Len(data) THEN data[r[2] + 1].DateStart ELSE PeriodEnd]

\* The list holds one period per run and nothing else.
OnePeriodPerRun(list, runs) ==
    /\ Len(list) = Cardinality(runs)
    /\ \A r \in runs : \E k \in 1..Len(list) : list[k] = RunPeriod(r)

\* C24: the warnings returned are exactly the periods of the maximal runs of
\* WEAK samples, one per run, and the alarms exactly those of the maximal
\* runs of STRONG samples.
C24_MaximalRuns ==
    pc = "returned" =>
      /\ OnePeriodPerRun(warnings, MaximalRuns("WEAK"))
      /\ OnePeriodPerRun(alarms, MaximalRuns("STRONG"))

\* A series with two separate runs of WEAK samples and a run of STRONG ones.
C24_Witness ==
    /\ pc = "returned"
    /\ Len(warnings) = 2
    /\ Len(alarms) = 1
    /\ Cardinality(MaximalRuns("WEAK")) = 2

\* ceil(a / b) for a >= 0 and b > 0.
CeilDiv(a, b) == (a + b - 1) \div b

\* C25: for a positive step, when the allocation of generateData is over
\* "Total" and every attribute path have a series of the same length
\* n = ceil((dateEnd - dateStart) / step), whose i-th sample (from 0) has
\* the timestamp dateStart + i * step, strictly before dateEnd.
C25_RegularGrid ==
    (pc = "allocated" /\ timeStepDuration > 0) =>
      LET n == CeilDiv(siteData.DateEnd - siteData.DateStart, timeStepDuration)
      IN  /\ Listed(metricData.Attributes) = Listed(AllocationOrder)
          /\ DOMAIN metricData.AttributeData = Listed(AllocationOrder)
          /\ \A a \in Listed(AllocationOrder) :
               /\ Len(metricData.AttributeData[a]) = n
               /\ \A i \in 0..(n - 1) :
                    /\ metricData.AttributeData[a][i + 1].DateStart = siteData.DateStart + i * timeStepDuration
                    /\ metricData.AttributeData[a][i + 1].DateStart < siteData.DateEnd

\* A window of 11 hours at steps of 2 hours was allocated: 6 samples a path.
C25_Witness ==
    /\ pc = "allocated"
    /\ timeStepDuration = 2
    /\ siteData.DateEnd - siteData.DateStart = 11
    /\ Len(metricData.AttributeData[Total]) = 6
    /\ Len(metricData.Attributes) = Len(AllocationOrder)

\* C26: when strongOutliersMultiplier <= outliersMultiplier no sample is
\* classified WEAK, no warning period is ever open and no warning is
\* emitted: every period detection emits is an alarm.
C26_StrongWins ==
    (pc \in {"loop", "returned"} /\ strongOutliersMultiplier <= outliersMultiplier) =>
      /\ warnings = <<>>
      /\ ~WeakOpen
      /\ \A i \in 0..(Len(data) - 1) : ClassOf(i) # "WEAK"

\* A call with the strong multiplier below the weak one returned an alarm
\* for a series with a sample beyond the weak limit.
C26_Witness ==
    /\ pc = "returned"
    /\ strongOutliersMultiplier < outliersMultiplier
    /\ Len(alarms) >= 1
    /\ \E i \in 1..Len(data) : AboveLimit(baseline, data[i].Value, outliersMultiplier)
    /\ \E i \in 1..Len(data) : ~AboveLimit(baseline, data[i].Value, outliersMultiplier)
                                /\ AboveLimit(baseline, data[i].Value, strongOutliersMultiplier)

\* C27: a 3-sigmas detection on an empty series (a window with no time step,
\* or an attribute AttributeData does not hold) returns an empty warnings
\* list and an empty alarms list; the traversal of GetResults moves on to
\* the next attribute and the events already in the report are unchanged.
C27_EmptySeriesNoEvents ==
    [][ (pc = "traverse" /\ attrInd' # attrInd /\ metricInd' = metricInd
           /\ res.OutliersDetectionMethod = "3-sigmas" /\ data' = <<>>) =>
          /\ warnings' = <<>>
          /\ alarms' = <<>>
          /\ res' = res
          /\ attrInd' = attrInd + 1
          /\ pc' = "traverse"
      ]_vars

\* In a window that holds time steps the second attribute of a metric had
\* no series; the report returned holds the events of the first.
C27_Witness ==
    /\ pc = "done"
    /\ res.OutliersDetectionMethod = "3-sigmas"
    /\ siteData.DateStart < siteData.DateEnd
    /\ Len(siteData.Metrics) = 1
    /\ data = <<>>
    /\ Len(res.Result.Warnings) + Len(res.Result.Alarms) >= 2

Last(list) == list[Len(list)]

\* C28: when a STRONG sample closes the open warning, or a WEAK sample the
\* open alarm, the period emitted ends at the timestamp of that sample and
\* the period opened by the same iteration starts there; and when a period
\* whose first sample follows a sample of the other outlier class is emitted
\* in its turn, its start is the end of the last period of the other kind.
C28_NoGapOnSeverityChange ==
    [][ pc = "loop" =>
          /\ (InLoop /\ WeakOpen /\ Class = "STRONG") =>
                /\ warnings' = Append(warnings, ClosedHere)
                /\ beginStep' # -1 /\ strongEvent'
                /\ data[beginStep' + 1].DateStart = Last(warnings').outlierPeriodEnd
          /\ (InLoop /\ StrongOpen /\ Class = "WEAK") =>
                /\ alarms' = Append(alarms, ClosedHere)
                /\ beginStep' # -1 /\ ~strongEvent'
                /\ data[beginStep' + 1].DateStart = Last(alarms').outlierPeriodEnd
          /\ (beginStep >= 1 /\ Len(alarms') = Len(alarms) + 1 /\ ClassOf(beginStep - 1) = "WEAK") =>
                /\ warnings # <<>>
                /\ Last(alarms').outlierPeriodStart = Last(warnings).outlierPeriodEnd
          /\ (beginStep >= 1 /\ Len(warnings') = Len(warnings) + 1 /\ ClassOf(beginStep - 1) = "STRONG") =>
                /\ alarms # <<>>
                /\ Last(warnings').outlierPeriodStart = Last(alarms).outlierPeriodEnd
      ]_vars

\* A call returned a warning that ends where an alarm starts and an alarm
\* that ends where a warning starts.
C28_Witness ==
    /\ pc = "returned"
    /\ \E w \in 1..Len(warnings), a \in 1..Len(alarms) :
         warnings[w].outlierPeriodEnd = alarms[a].outlierPeriodStart
    /\ \E w \in 1..Len(warnings), a \in 1..Len(alarms) :
         alarms[a].outlierPeriodEnd = warnings[w].outlierPeriodStart

\* C29: once GetData has accepted the two strings of the dataset, the
\* allocation of the time steps comes to its end with every series built.
C29_AllocationTerminates == (pc = "alloc") ~> (pc = "allocated")

\* The position of a path in the list passed to filterData.
PositionInArg(a) == CHOOSE i \in 1..Len(metricDataArg.Attributes) : metricDataArg.Attributes[i] = a

\* C30: filterData called on a list without duplicates whose elements are
\* the keys of AttributeData returns a list without duplicates whose
\* elements are the keys of the AttributeData returned; the attributes
\* retained are in their original relative order with their series
\* unchanged.
C30_IndexConsistent ==
    pc = "filtered" =>
      LET result == metricData.Attributes
      IN  /\ \A i, j \in 1..Len(result) : i # j => result[i] # result[j]
          /\ Listed(result) = DOMAIN metricData.AttributeData
          /\ Listed(result) \subseteq Listed(metricDataArg.Attributes)
          /\ \A i, j \in 1..Len(result) :
               i < j => PositionInArg(result[i]) < PositionInArg(result[j])
          /\ \A a \in Listed(result) :
               metricData.AttributeData[a] = metricDataArg.AttributeData[a]

\* A call on four attributes removed the second and the fourth.
C30_Witness ==
    /\ pc = "filtered"
    /\ Len(metricDataArg.Attributes) = 4
    /\ Len(metricData.Attributes) = 2
    /\ metricData.Attributes[1] = metricDataArg.Attributes[1]
    /\ metricData.Attributes[2] = metricDataArg.Attributes[3]
    /\ SamplesSum(metricData.AttributeData[metricData.Attributes[2]]) = 2

====
